---- MODULE Spec2Model ----
(***************************************************************************)
(* A model of smatch_mtag.c: memory tags for allocations and toplevel      *)
(* symbols, and their propagation from callers to callees through the      *)
(* caller_info table.                                                      *)
(*                                                                         *)
(* C strings are TLA+ strings; a null char pointer is the value NULL.      *)
(* An mtag_t (long long) is its eight bytes in memory, least significant   *)
(* first (a little-endian host), so that bit 63 is the top bit of byte 8.  *)
(***************************************************************************)
EXTENDS Integers, Sequences, FiniteSets, Bags, TLC

(***************************************************************************)
(* Bounds of the model.                                                    *)
(***************************************************************************)
\* rows the mtag_about table may hold before the model stops inserting
MaxAbout == 2
\* rows the caller_info table may hold before the model stops inserting
MaxCallerInfo == 2
\* how many wrappers (parentheses, casts, operators) an expression handed
\* to get_mtag carries around its symbol
MaxWrap == 3

(***************************************************************************)
(* Program constants.                                                      *)
(***************************************************************************)
\* char buf[256] in alloc_assign and get_toplevel_mtag, fullname[256]
BufSize == 256
\* char buf[64] in alloc_tag_state
NameBufSize == 64
\* unsigned char c[MD5_DIGEST_LENGTH]
MD5_DIGEST_LENGTH == 16
\* sizeof(mtag_t), in bytes
TagBytes == 8
\* a 64-bit value as limbs of 16 bits; 1ULL << 63 is the top bit of the last
LimbBase == 256 * 256
TagLimbs == TagBytes \div 2
SignBit == LimbBase \div 2

NULL == "<NULL>"

(***************************************************************************)
(* Strings.                                                                *)
(***************************************************************************)
RECURSIVE Rep(_, _)
Rep(s, n) ==
    IF n = 0 THEN ""
    ELSE LET h == Rep(s, n \div 2)
         IN  IF n % 2 = 0 THEN h \o h ELSE h \o h \o s

\* what snprintf(buf, size, ...) leaves in buf when the formatted text is s:
\* at most size - 1 characters and the terminating zero
snprintf(size, s) == IF Len(s) < size THEN s ELSE SubSeq(s, 1, size - 1)

\* what "%s" prints for its argument.  A null argument is undefined
\* behaviour; the C libraries smatch is built against print "(null)"
FmtS(s) == IF s = NULL THEN "(null)" ELSE s

(***************************************************************************)
(* 64-bit arithmetic.  A 64-bit value is four 16-bit limbs, least          *)
(* significant first, so that every intermediate result fits the           *)
(* checker's integers; bit 63 is the top bit of limb 4.                    *)
(***************************************************************************)
Zero64 == <<0, 0, 0, 0>>

IsNegative(t) == t[TagLimbs] >= SignBit

\* t + 1 modulo 2^64
RECURSIVE Inc(_, _)
Inc(t, k) ==
    IF k > TagLimbs THEN t
    ELSE IF t[k] = LimbBase - 1 THEN Inc([t EXCEPT ![k] = 0], k + 1)
    ELSE [t EXCEPT ![k] = t[k] + 1]

\* two's complement negation modulo 2^64
Negate(t) == Inc([k \in 1..TagLimbs |-> LimbBase - 1 - t[k]], 1)

\* <<quotient, remainder>> of the unsigned value t by 10: long division
\* from the most significant limb down
DivMod10(t) ==
    LET c4 == t[4]
        c3 == (c4 % 10) * LimbBase + t[3]
        c2 == (c3 % 10) * LimbBase + t[2]
        c1 == (c2 % 10) * LimbBase + t[1]
    IN  << <<c1 \div 10, c2 \div 10, c3 \div 10, c4 \div 10>>, c1 % 10 >>

\* t * 10 + d modulo 2^64
MulAdd10(t, d) ==
    LET c1 == t[1] * 10 + d
        c2 == t[2] * 10 + (c1 \div LimbBase)
        c3 == t[3] * 10 + (c2 \div LimbBase)
        c4 == t[4] * 10 + (c3 \div LimbBase)
    IN  <<c1 % LimbBase, c2 % LimbBase, c3 % LimbBase, c4 % LimbBase>>

DigitChar == <<"0", "1", "2", "3", "4", "5", "6", "7", "8", "9">>

IsDigit(ch) == \E d \in 1..10 : DigitChar[d] = ch

DigitVal(ch) == (CHOOSE d \in 1..10 : DigitChar[d] = ch) - 1

CharAt(str, i) == SubSeq(str, i, i)

\* the decimal digits of the unsigned value t
RECURSIVE UDecimal(_)
UDecimal(t) ==
    LET qr == DivMod10(t)
    IN  IF qr[1] = Zero64 THEN DigitChar[qr[2] + 1]
        ELSE UDecimal(qr[1]) \o DigitChar[qr[2] + 1]

\* what "%lld" prints for the long long t
FmtLld(t) == IF IsNegative(t) THEN "-" \o UDecimal(Negate(t)) ELSE UDecimal(t)

\* the position of the last character of the run of digits of str that
\* starts at position i (i - 1 when there is none)
RECURSIVE DigitsEnd(_, _)
DigitsEnd(str, i) ==
    IF i <= Len(str) /\ IsDigit(CharAt(str, i)) THEN DigitsEnd(str, i + 1)
    ELSE i - 1

\* the value of the digits of str at positions i..j, modulo 2^64
RECURSIVE DigitsValue(_, _, _)
DigitsValue(str, i, j) ==
    IF j < i THEN Zero64
    ELSE MulAdd10(DigitsValue(str, i, j - 1), DigitVal(CharAt(str, j)))

\* past the leading white space of str
RECURSIVE SkipSpace(_, _)
SkipSpace(str, i) ==
    IF i <= Len(str) /\ CharAt(str, i) = " " THEN SkipSpace(str, i + 1) ELSE i

\* atoll(value): optional white space, an optional sign, then digits
atoll(str) ==
    LET i == SkipSpace(str, 1)
        sign == IF i <= Len(str) THEN CharAt(str, i) ELSE ""
        from == IF sign \in {"-", "+"} THEN i + 1 ELSE i
        magnitude == DigitsValue(str, from, DigitsEnd(str, from))
    IN  IF sign = "-" THEN Negate(magnitude) ELSE magnitude

(***************************************************************************)
(* Symbols and expressions of the analysed program.                        *)
(***************************************************************************)
MOD_TOPLEVEL == "MOD_TOPLEVEL"
MOD_STATIC == "MOD_STATIC"

\* a struct symbol: addr is the pointer to it (0: the null pointer), ident
\* its identifier's name (NULL: no identifier)
Symbol(addr, ident, modifiers) ==
    [addr |-> addr, ident |-> ident, modifiers |-> modifiers]

NullSym == Symbol(0, NULL, {})

SymStaticFoo == Symbol(1, "foo", {MOD_TOPLEVEL, MOD_STATIC})
SymExternFoo == Symbol(2, "foo", {MOD_TOPLEVEL})
SymStaticBar == Symbol(3, "bar", {MOD_TOPLEVEL, MOD_STATIC})
SymExternBar == Symbol(4, "bar", {MOD_TOPLEVEL})
\* a block-scope variable, a function-scope static, and a file-scope symbol
\* without an identifier
SymLocalFoo == Symbol(5, "foo", {})
SymLocalStatic == Symbol(6, "foo", {MOD_STATIC})
SymAnon == Symbol(7, NULL, {MOD_TOPLEVEL})
\* the local d of the caller, the parameters p and q of the callee, and the
\* functions called
SymD == Symbol(8, "d", {})
SymP == Symbol(9, "p", {})
SymQ == Symbol(10, "q", {})
SymCallee == Symbol(11, "callee", {MOD_TOPLEVEL})
SymKmalloc == Symbol(12, "kmalloc", {MOD_TOPLEVEL})
SymKzalloc == Symbol(13, "kzalloc", {MOD_TOPLEVEL})
SymOps == Symbol(14, "ops", {MOD_TOPLEVEL})

DeclSymSeq ==
    <<NullSym, SymStaticFoo, SymExternFoo, SymStaticBar, SymExternBar,
      SymLocalFoo, SymLocalStatic, SymAnon>>

\* struct expression, by type
ExprSymbol(sym) == [type |-> "EXPR_SYMBOL", symbol |-> sym]
ExprPreop(op, unop) == [type |-> "EXPR_PREOP", op |-> op, unop |-> unop]
ExprCast(e) == [type |-> "EXPR_CAST", cast_expression |-> e]
ExprDeref(e, member) == [type |-> "EXPR_DEREF", deref |-> e, member |-> member]
ExprBinop(op, l, r) == [type |-> "EXPR_BINOP", op |-> op, left |-> l, right |-> r]
ExprValue(text) == [type |-> "EXPR_VALUE", value |-> text]
ExprCall(fn, args) == [type |-> "EXPR_CALL", fn |-> fn, args |-> args]
ExprAssignment(op, l, r) ==
    [type |-> "EXPR_ASSIGNMENT", op |-> op, left |-> l, right |-> r]

(***************************************************************************)
(* The host engine's helpers this file calls (smatch_helper.c and          *)
(* smatch_db.c are outside this file): expression simplification and       *)
(* rendering.                                                              *)
(***************************************************************************)
\* strip_expr: the expression without its parentheses and casts
RECURSIVE strip_expr(_)
strip_expr(e) ==
    IF e.type = "EXPR_CAST" THEN strip_expr(e.cast_expression)
    ELSE IF e.type = "EXPR_PREOP" /\ e.op = "(" THEN strip_expr(e.unop)
    ELSE e

NoName == [name |-> NULL, sym |-> NullSym]

\* expr_to_str_sym: the name of the variable an expression denotes and the
\* symbol it belongs to; NULL and no symbol for anything more complicated
RECURSIVE expr_to_str_sym(_)
expr_to_str_sym(expr) ==
    LET e == strip_expr(expr)
    IN  IF e.type = "EXPR_SYMBOL"
        THEN IF e.symbol = NullSym \/ e.symbol.ident = NULL THEN NoName
             ELSE [name |-> e.symbol.ident, sym |-> e.symbol]
        ELSE IF e.type = "EXPR_PREOP" /\ e.op = "*"
        THEN LET r == expr_to_str_sym(e.unop)
             IN  IF r.name = NULL THEN NoName
                 ELSE [name |-> "*" \o r.name, sym |-> r.sym]
        ELSE IF e.type = "EXPR_DEREF"
        THEN LET r == expr_to_str_sym(e.deref)
             IN  IF r.name = NULL THEN NoName
                 ELSE [name |-> r.name \o "->" \o e.member, sym |-> r.sym]
        ELSE NoName

\* the texts of a list of arguments, separated by ", "
RECURSIVE JoinArgs(_, _)
JoinArgs(texts, i) ==
    IF i > Len(texts) THEN ""
    ELSE IF i = Len(texts) THEN texts[i]
    ELSE texts[i] \o ", " \o JoinArgs(texts, i + 1)

\* expr_to_str: the text of an expression, NULL when it has none
RECURSIVE expr_to_str(_)
expr_to_str(expr) ==
    LET e == strip_expr(expr)
    IN  IF e.type = "EXPR_VALUE" THEN e.value
        ELSE IF e.type = "EXPR_CALL"
        THEN LET fn == expr_to_str(e.fn)
                 args == [i \in 1..Len(e.args) |-> expr_to_str(e.args[i])]
             IN  IF fn = NULL \/ \E i \in 1..Len(e.args) : args[i] = NULL
                 THEN NULL
                 ELSE fn \o "(" \o JoinArgs(args, 1) \o ")"
        ELSE expr_to_str_sym(e).name

(***************************************************************************)
(* The analysed program: the files and functions the engine may be in,     *)
(* and the statements it hands to the hooks.                               *)
(***************************************************************************)
\* a directory whose name alone fills buf
LongDir == Rep("d", BufSize - 1)

FileSeq == <<"drv.c", "extern", LongDir \o "/a.c", LongDir \o "/b.c">>
FunctionSeq == <<"probe", "remove">>

Range(seq) == {seq[i] : i \in 1..Len(seq)}

Files == Range(FileSeq)
DeclSyms == Range(DeclSymSeq)
Functions == Range(FunctionSeq)

\* destinations: d, (d), *(d + 1)
LeftSeq ==
    <<ExprSymbol(SymD),
      ExprPreop("(", ExprSymbol(SymD)),
      ExprPreop("*", ExprBinop("+", ExprSymbol(SymD), ExprValue("1")))>>

\* sources: kmalloc(4), (kzalloc(8)), a call through a pointer, a constant
RightSeq ==
    <<ExprCall(ExprSymbol(SymKmalloc), <<ExprValue("4")>>),
      ExprPreop("(", ExprCall(ExprSymbol(SymKzalloc), <<ExprValue("8")>>)),
      ExprCall(ExprPreop("*", ExprSymbol(SymOps)), <<>>),
      ExprValue("0")>>

\* every destination = every source, and d += kmalloc(4)
AssignExprs ==
    {ExprAssignment("=", l, r) : l \in Range(LeftSeq), r \in Range(RightSeq)}
    \cup {ExprAssignment("+=", LeftSeq[1], RightSeq[1])}

\* the assignments the return-states hook is called for
ReturnExprs == {ExprAssignment("=", LeftSeq[1], RightSeq[1])}

\* calls of callee(p, q): callee(d), callee(1, d), callee(d, 1), callee(p)
CallExprs ==
    {ExprCall(ExprSymbol(SymCallee), args) :
        args \in {<<ExprSymbol(SymD)>>,
                  <<ExprValue("1"), ExprSymbol(SymD)>>,
                  <<ExprCast(ExprSymbol(SymD)), ExprValue("1")>>,
                  <<ExprSymbol(SymP)>>}}

\* the parameters of the functions of the program, by function name
Params(fn) == IF fn = "callee" THEN <<SymP, SymQ>> ELSE <<>>

(***************************************************************************)
(* MD5.  The digest is a black box: each distinct input has its own        *)
(* 16-byte digest, the same whenever it is hashed, and digests with the    *)
(* top bit of byte 8 set occur.  HashInputs lists the texts the program    *)
(* above can hash, in full and as cut by snprintf; a text's digest is made *)
(* from its first position in that list.                                   *)
(***************************************************************************)
\* "%s %s %s %s"
Fmt4(a, b, c, d) == FmtS(a) \o " " \o FmtS(b) \o " " \o FmtS(c) \o " " \o FmtS(d)
\* "%s %s"
Fmt2(a, b) == FmtS(a) \o " " \o FmtS(b)

\* the k-th (from 0) choice of one element from each of four sequences
Pick(seq, k, stride) == seq[((k \div stride) % Len(seq)) + 1]

AllocTexts ==
    [c \in 1..(Len(FileSeq) * Len(FunctionSeq) * Len(LeftSeq) * Len(RightSeq)) |->
        Fmt4(Pick(FileSeq, c - 1, 1),
             Pick(FunctionSeq, c - 1, Len(FileSeq)),
             expr_to_str_sym(Pick(LeftSeq, c - 1, Len(FileSeq) * Len(FunctionSeq))).name,
             expr_to_str(Pick(RightSeq, c - 1,
                              Len(FileSeq) * Len(FunctionSeq) * Len(LeftSeq))))]

QualifierSeq == FileSeq \o <<"extern">>

ToplevelTexts ==
    [c \in 1..(Len(QualifierSeq) * Len(DeclSymSeq)) |->
        Fmt2(Pick(QualifierSeq, c - 1, 1),
             Pick(DeclSymSeq, c - 1, Len(QualifierSeq)).ident)]

HashInputs ==
    LET full == AllocTexts \o ToplevelTexts
    IN  full \o [i \in 1..Len(full) |-> snprintf(BufSize, full[i])]

HashIndex(str) ==
    IF \E i \in 1..Len(HashInputs) : HashInputs[i] = str
    THEN CHOOSE i \in 1..Len(HashInputs) :
            /\ HashInputs[i] = str
            /\ \A j \in 1..(i - 1) : HashInputs[j] # str
    ELSE 0

\* the digest of the k-th text: bytes 1 and 2 tell the texts apart, byte 8
\* has its top bit set for every other text
Digest(k) ==
    [i \in 1..MD5_DIGEST_LENGTH |->
        IF i = 1 THEN k % 256
        ELSE IF i = 2 THEN (k \div 256) % 256
        ELSE IF i = TagBytes THEN (k % 2) * 128 + ((k * 37) % 128)
        ELSE (k * (2 * i + 1) + 11 * i) % 256]

MD5(str) == Digest(HashIndex(str))

(***************************************************************************)
(* State.                                                                  *)
(***************************************************************************)
VARIABLES
    filename,     \* get_filename(): the file being analysed
    function,     \* get_function(): the function being analysed
    states,       \* the state store of my_id: (name, symbol) -> smatch_state
    mtag_about,   \* the mtag_about table: a bag of rows
    caller_info,  \* the caller_info table: a bag of rows
    ret           \* what the last calls of get_toplevel_mtag / get_mtag returned

vars == <<filename, function, states, mtag_about, caller_info, ret>>

\* an mtag_t nobody wrote, a null state
NoTag == <<>>
NullState == [name |-> NULL, data |-> NoTag]

\* get_state: the state bound to (name, sym), a null pointer when none is
get_state(st, name, sym) ==
    IF <<name, sym>> \in DOMAIN st THEN st[<<name, sym>>] ELSE NullState

\* get_state_expr: the state bound to the variable an expression denotes
get_state_expr(st, expr) ==
    LET v == expr_to_str_sym(expr)
    IN  IF v.name = NULL \/ v.sym = NullSym THEN NullState
        ELSE get_state(st, v.name, v.sym)

\* set_state: binds (name, sym) to state, replacing what was bound
set_state(st, name, sym, state) ==
    [b \in DOMAIN st \cup {<<name, sym>>} |->
        IF b = <<name, sym>> THEN state ELSE st[b]]

\* sql_insert_mtag_about: one more row
sql_insert_mtag_about(table, tag, name, about) ==
    table (+) SetToBag({[tag |-> tag, name |-> name, about |-> about]})

\* the row sql_insert_caller_info inserts for a call
CallerInfoRow(call, type, param, key, value) ==
    [fn |-> call.fn.symbol.ident, type |-> type, param |-> param,
     key |-> key, value |-> value]

MEMORY_TAG == "MEMORY_TAG"

(***************************************************************************)
(* The functions of smatch_mtag.c.                                         *)
(***************************************************************************)
alloc_tag_state(tag) ==
    [name |-> snprintf(NameBufSize, FmtLld(tag)), data |-> tag]

\* the unsigned long long at the start of the digest c
Load64(c) == [k \in 1..TagLimbs |-> c[2 * k - 1] + 256 * c[2 * k]]

\* as ClearBit63, with the mask off by one bit: *tag &= ~(1ULL << 62)
ClearBit62(t) ==
    [t EXCEPT ![TagLimbs] = (t[TagLimbs] \div SignBit) * SignBit
                            + (t[TagLimbs] % (SignBit \div 2))]

\* *tag &= ~(1ULL << 63)
ClearBit63(t) == [t EXCEPT ![TagLimbs] = t[TagLimbs] % SignBit]

str_to_tag(str) == ClearBit63(Load64(MD5(str)))

\* buf of alloc_assign after its snprintf
alloc_buf(file, fn, left_name, right_name) ==
    snprintf(BufSize, Fmt4(file, fn, left_name, right_name))

\* the stores after alloc_assign(fn, expr, unused)
alloc_assign_result(expr) ==
    LET same == [states |-> states, mtag_about |-> mtag_about]
    IN  IF expr.type # "EXPR_ASSIGNMENT" \/ expr.op # "=" THEN same
        ELSE
        LET left == strip_expr(expr.left)
            right == strip_expr(expr.right)
        IN  IF right.type # "EXPR_CALL" \/ right.fn.type # "EXPR_SYMBOL" THEN same
            ELSE
            LET l == expr_to_str_sym(left)
                right_name == expr_to_str(right)
                tag == str_to_tag(alloc_buf(filename, function, l.name, right_name))
            IN  [mtag_about |->
                    sql_insert_mtag_about(mtag_about, tag, l.name, right_name),
                 states |->
                    IF l.name # NULL /\ l.sym # NullSym
                    THEN set_state(states, l.name, l.sym, alloc_tag_state(tag))
                    ELSE states]

alloc_assign(expr) ==
    LET r == alloc_assign_result(expr)
    IN  /\ UNCHANGED <<filename, function, caller_info, ret>>
        /\ BagCardinality(r.mtag_about) <= MaxAbout
        /\ states' = r.states
        /\ mtag_about' = r.mtag_about

\* the qualifier of a toplevel symbol: its file when static, else "extern"
qualifier(file, sym) == IF MOD_STATIC \in sym.modifiers THEN file ELSE "extern"

\* buf of get_toplevel_mtag after its snprintf
toplevel_buf(file, sym) == snprintf(BufSize, Fmt2(qualifier(file, sym), sym.ident))

\* get_toplevel_mtag(sym, &tag) with get_filename() = file: the value
\* returned and *tag, which is left as it was when 0 is returned
get_toplevel_mtag(file, sym) ==
    IF sym = NullSym THEN [rc |-> 0, tag |-> NoTag]
    ELSE IF sym.ident = NULL \/ MOD_TOPLEVEL \notin sym.modifiers
    THEN [rc |-> 0, tag |-> NoTag]
    ELSE [rc |-> 1, tag |-> str_to_tag(toplevel_buf(file, sym))]

\* as global_variable_result, with the file recorded for every symbol
global_variable_result_file(sym) ==
    LET r == get_toplevel_mtag(filename, sym)
    IN  IF r.rc = 0 THEN mtag_about
        ELSE sql_insert_mtag_about(mtag_about, r.tag, sym.ident, filename)

global_variable_result(sym) ==
    LET r == get_toplevel_mtag(filename, sym)
    IN  IF r.rc = 0 THEN mtag_about
        ELSE sql_insert_mtag_about(mtag_about, r.tag, sym.ident,
                                   qualifier(filename, sym))

global_variable(sym) ==
    /\ UNCHANGED <<filename, function, states, caller_info, ret>>
    /\ BagCardinality(global_variable_result(sym)) <= MaxAbout
    /\ mtag_about' = global_variable_result(sym)

\* db_returns_buf_size parses the call's math and stores nothing
db_returns_buf_size(expr) ==
    /\ expr.type = "EXPR_ASSIGNMENT"
    /\ UNCHANGED vars

\* as match_call_info_rows, with i++ after the continue: untagged arguments
\* are not counted
RECURSIVE match_call_info_rows_uncounted(_, _, _)
match_call_info_rows_uncounted(expr, k, i) ==
    IF k > Len(expr.args) THEN EmptyBag
    ELSE LET state == get_state_expr(states, expr.args[k])
         IN  IF state = NullState \/ state.data = NoTag
             THEN match_call_info_rows_uncounted(expr, k + 1, i)
             ELSE SetToBag({CallerInfoRow(expr, MEMORY_TAG, i + 1, "$", state.name)})
                  (+) match_call_info_rows_uncounted(expr, k + 1, i + 1)

\* the rows the loop of match_call_info inserts from the k-th argument on,
\* i being the counter before that iteration
RECURSIVE match_call_info_rows(_, _, _)
match_call_info_rows(expr, k, i) ==
    IF k > Len(expr.args) THEN EmptyBag
    ELSE LET state == get_state_expr(states, expr.args[k])
         IN  IF state = NullState \/ state.data = NoTag
             THEN match_call_info_rows(expr, k + 1, i + 1)
             ELSE SetToBag({CallerInfoRow(expr, MEMORY_TAG, i + 1, "$", state.name)})
                  (+) match_call_info_rows(expr, k + 1, i + 1)

match_call_info(expr) ==
    LET rows == match_call_info_rows(expr, 1, -1)
    IN  /\ UNCHANGED <<filename, function, states, mtag_about, ret>>
        /\ BagCardinality(caller_info) + BagCardinality(rows) <= MaxCallerInfo
        /\ caller_info' = caller_info (+) rows

\* atoi(value): the low 32 bits of the number, sign-extended
atoi(str) ==
    LET t == atoll(str)
        ext == IF t[2] >= SignBit THEN LimbBase - 1 ELSE 0
    IN  <<t[1], t[2], ext, ext>>

\* as save_caller_info_result, with tag = atoi(value)
save_caller_info_result_atoi(name, sym, key, value) ==
    IF SubSeq(key, 1, 1) # "$" THEN states
    ELSE LET tag == atoi(value)
             fullname == snprintf(BufSize, name \o SubSeq(key, 2, Len(key)))
         IN  set_state(states, fullname, sym, alloc_tag_state(tag))

\* the state store after save_caller_info(name, sym, key, value)
save_caller_info_result(name, sym, key, value) ==
    IF SubSeq(key, 1, 1) # "$" THEN states
    ELSE LET tag == atoll(value)
             fullname == snprintf(BufSize, name \o SubSeq(key, 2, Len(key)))
         IN  set_state(states, fullname, sym, alloc_tag_state(tag))

\* the engine hands a MEMORY_TAG row of the function under analysis to
\* save_caller_info, with the name and symbol of the parameter it is about
save_caller_info(row) ==
    /\ UNCHANGED <<filename, function, mtag_about, caller_info, ret>>
    /\ BagIn(row, caller_info)
    /\ row.type = MEMORY_TAG
    /\ row.param + 1 \in 1..Len(Params(row.fn))
    /\ LET sym == Params(row.fn)[row.param + 1]
       IN  states' = save_caller_info_result(sym.ident, sym, row.key, row.value)

\* as get_mtag, with expr = expr->unop: the operand of & is not stripped
get_mtag_operand_unstripped(file, expr) ==
    LET e1 == strip_expr(expr)
        e2 == IF e1.type = "EXPR_PREOP" /\ e1.op = "&" THEN e1.unop ELSE e1
    IN  IF e2.type = "EXPR_SYMBOL" /\ get_toplevel_mtag(file, e2.symbol).rc = 1
        THEN [rc |-> 1, tag |-> get_toplevel_mtag(file, e2.symbol).tag]
        ELSE [rc |-> 0, tag |-> NoTag]

get_mtag(file, expr) ==
    LET e1 == strip_expr(expr)
        e2 == IF e1.type = "EXPR_PREOP" /\ e1.op = "&" THEN strip_expr(e1.unop)
              ELSE e1
    IN  IF e2.type = "EXPR_SYMBOL" /\ get_toplevel_mtag(file, e2.symbol).rc = 1
        THEN [rc |-> 1, tag |-> get_toplevel_mtag(file, e2.symbol).tag]
        ELSE [rc |-> 0, tag |-> NoTag]

(***************************************************************************)
(* Calls of the two queries by other passes.  ret keeps the last `keep`    *)
(* calls: the function, the file it ran in, its argument, buf as the call  *)
(* left it (NULL: not written), the value returned and *tag.               *)
(***************************************************************************)
LastN(seq, n) == IF Len(seq) <= n THEN seq ELSE SubSeq(seq, Len(seq) - n + 1, Len(seq))

call_get_toplevel_mtag(sym, keep) ==
    LET r == get_toplevel_mtag(filename, sym)
    IN  /\ ret' = LastN(Append(ret,
                    [fn |-> "get_toplevel_mtag", file |-> filename, arg |-> sym,
                     buf |-> IF r.rc = 1 THEN toplevel_buf(filename, sym) ELSE NULL,
                     rc |-> r.rc, tag |-> r.tag]), keep)
        /\ UNCHANGED <<filename, function, states, mtag_about, caller_info>>

call_get_mtag(expr) ==
    LET r == get_mtag(filename, expr)
    IN  /\ ret' = <<[fn |-> "get_mtag", file |-> filename, arg |-> expr,
                     rc |-> r.rc, tag |-> r.tag]>>
        /\ UNCHANGED <<filename, function, states, mtag_about, caller_info>>

\* the engine goes on to another file
begin_file(file) ==
    /\ file # filename
    /\ filename' = file
    /\ UNCHANGED <<function, states, mtag_about, caller_info, ret>>

(***************************************************************************)
(* The expressions handed to get_mtag: a symbol or a constant under up to  *)
(* n wrappers.                                                             *)
(***************************************************************************)
LeafExprs ==
    {ExprSymbol(sym) : sym \in {SymStaticFoo, SymExternBar, SymLocalFoo, SymAnon, NullSym}}
    \cup {ExprValue("1")}

\* e in parentheses, cast, &e, *e, e->field, e + 1
Wrap(e) ==
    {ExprPreop("(", e), ExprCast(e), ExprPreop("&", e), ExprPreop("*", e),
     ExprDeref(e, "field"), ExprBinop("+", e, ExprValue("1"))}

RECURSIVE ExprsUpTo(_)
ExprsUpTo(n) ==
    IF n = 0 THEN LeafExprs
    ELSE LET smaller == ExprsUpTo(n - 1)
         IN  smaller \cup UNION {Wrap(e) : e \in smaller}

QueryExprs == ExprsUpTo(MaxWrap)
\* the symbols and constants bare, and the static foo under one wrapper
ShallowExprs == LeafExprs \cup Wrap(ExprSymbol(SymStaticFoo))

(***************************************************************************)
(* Specifications.                                                         *)
(***************************************************************************)
Init ==
    /\ filename \in Files
    /\ function \in Functions
    /\ states = <<>>
    /\ mtag_about = EmptyBag
    /\ caller_info = EmptyBag
    /\ ret = <<>>

\* the hooks register_mtag installs, called by the engine in any order
Next ==
    \/ \E sym \in DeclSyms : global_variable(sym)
    \/ \E expr \in AssignExprs : alloc_assign(expr)
    \/ \E expr \in ReturnExprs : db_returns_buf_size(expr)
    \/ \E expr \in CallExprs : match_call_info(expr)
    \/ \E row \in BagToSet(caller_info) : save_caller_info(row)

Spec == Init /\ [][Next]_vars

\* declarations, and the two queries called between them
NextQuery ==
    \/ \E sym \in DeclSyms : global_variable(sym)
    \/ \E sym \in DeclSyms : call_get_toplevel_mtag(sym, 1)
    \/ \E expr \in ShallowExprs : call_get_mtag(expr)

SpecQuery == Init /\ [][NextQuery]_vars

\* get_toplevel_mtag called for symbols of several files, the last two
\* calls kept
NextToplevel ==
    \/ \E file \in Files : begin_file(file)
    \/ \E sym \in DeclSyms : call_get_toplevel_mtag(sym, 2)

SpecToplevel == Init /\ [][NextToplevel]_vars

\* get_mtag applied once to an expression
NextResolve ==
    /\ ret = <<>>
    /\ \E expr \in QueryExprs : call_get_mtag(expr)

SpecResolve == Init /\ [][NextResolve]_vars

(***************************************************************************)
(* Vocabulary of the properties.  A step that changes nothing satisfies    *)
(* every [][A]_vars, so the action properties below look only at steps     *)
(* that change a variable.                                                 *)
(***************************************************************************)
\* a tag in [0, 2^63)
InRange63(tag) ==
    /\ DOMAIN tag = 1..TagLimbs
    /\ \A k \in 1..TagLimbs : tag[k] \in 0..(LimbBase - 1)
    /\ tag[TagLimbs] < SignBit

\* a symbol with an identifier and file-scope linkage
Eligible(sym) ==
    sym # NullSym /\ sym.ident # NULL /\ MOD_TOPLEVEL \in sym.modifiers

IsStatic(sym) == MOD_STATIC \in sym.modifiers

\* a plain '=' whose right side is a direct call of a named function
Triggering(expr) ==
    /\ expr.type = "EXPR_ASSIGNMENT"
    /\ expr.op = "="
    /\ strip_expr(expr.right).type = "EXPR_CALL"
    /\ strip_expr(expr.right).fn.type = "EXPR_SYMBOL"

\* the destination's name and symbol, and whether both are there
Dest(expr) == expr_to_str_sym(expr.left)
DestResolved(expr) == Dest(expr).name # NULL /\ Dest(expr).sym # NullSym

TagsSeen == {row.tag : row \in BagToSet(mtag_about)}

OneRow(row) == SetToBag({row})

(***************************************************************************)
(* C1.  Propagation round trip: when match_call_info runs on a call whose  *)
(* argument i has a bound TagState with tag T in [0, 2^63), it writes a    *)
(* caller_info row for parameter i whose value is the decimal text of T;   *)
(* and when save_caller_info later processes a row whose value is the      *)
(* decimal text of T, the callee's parameter is bound to a TagState whose  *)
(* tag is exactly T.                                                       *)
(***************************************************************************)
C1_RoundTrip ==
    [][/\ \A expr \in CallExprs :
            (caller_info' # caller_info /\ match_call_info(expr)) =>
                \A i \in 1..Len(expr.args) :
                    LET st == get_state_expr(states, expr.args[i])
                        row == [fn |-> "callee", type |-> MEMORY_TAG, param |-> i - 1,
                                key |-> "$", value |-> FmtLld(st.data)]
                    IN  (st # NullState /\ InRange63(st.data)) =>
                            CopiesIn(row, caller_info') = CopiesIn(row, caller_info) + 1
       /\ \A row \in BagToSet(caller_info) :
            (states' # states /\ save_caller_info(row)) =>
                \A T \in TagsSeen :
                    (InRange63(T) /\ row.value = FmtLld(T)) =>
                        LET sym == Params(row.fn)[row.param + 1]
                        IN  get_state(states', sym.ident, sym).data = T
      ]_vars

\* callee's q was bound, from a row written for callee(1, d), to the tag d
\* has, a tag above 2^32
C1_Witness ==
    /\ <<"q", SymQ>> \in DOMAIN states
    /\ <<"d", SymD>> \in DOMAIN states
    /\ states[<<"q", SymQ>>].data = states[<<"d", SymD>>].data
    /\ states[<<"d", SymD>>].data \in TagsSeen
    /\ states[<<"d", SymD>>].data[TagLimbs] > 0
    /\ \E row \in BagToSet(caller_info) :
            row.param = 1 /\ row.value = FmtLld(states[<<"d", SymD>>].data)

(***************************************************************************)
(* C2.  Allocation tagging, as claimed: every triggering assignment whose  *)
(* destination resolves binds to the destination a TagState whose tag is   *)
(* derive_tag of "<file> <function> <dest-text> <source-text>" and whose   *)
(* display is that tag in decimal, and inserts one mtag_about row {tag,    *)
(* dest-text, source-text} with the same tag.                              *)
(***************************************************************************)
C2_AllocTagging ==
    [][\A expr \in AssignExprs :
        (alloc_assign(expr) /\ Triggering(expr) /\ DestResolved(expr)) =>
            LET dest == Dest(expr)
                source == expr_to_str(expr.right)
                tag == str_to_tag(Fmt4(filename, function, dest.name, source))
                row == [tag |-> tag, name |-> dest.name, about |-> source]
            IN  /\ get_state(states', dest.name, dest.sym) =
                        [name |-> FmtLld(tag), data |-> tag]
                /\ CopiesIn(row, mtag_about') = CopiesIn(row, mtag_about) + 1
      ]_vars

(***************************************************************************)
(* C3.  Toplevel eligibility and identity, as claimed: get_toplevel_mtag   *)
(* yields no tag for a null symbol, a symbol without an identifier or one  *)
(* without file-scope linkage, and a tag for every other symbol; two       *)
(* static symbols of the same name in different files get different tags,  *)
(* and two non-static symbols of the same name get the same tag whatever   *)
(* the files.                                                              *)
(***************************************************************************)
C3_ToplevelIdentity ==
    \A i \in 1..Len(ret) : \A j \in 1..Len(ret) :
        LET a == ret[i]
            b == ret[j]
        IN  (a.fn = "get_toplevel_mtag" /\ b.fn = "get_toplevel_mtag") =>
                /\ (a.rc = 1) = Eligible(a.arg)
                /\ (a.rc = 0) => (a.tag = NoTag)
                /\ ( /\ Eligible(a.arg) /\ Eligible(b.arg)
                     /\ a.arg.ident = b.arg.ident
                     /\ IsStatic(a.arg) /\ IsStatic(b.arg)
                     /\ a.file # b.file ) => (a.tag # b.tag)
                /\ ( /\ Eligible(a.arg) /\ Eligible(b.arg)
                     /\ a.arg.ident = b.arg.ident
                     /\ ~IsStatic(a.arg) /\ ~IsStatic(b.arg) ) => (a.tag = b.tag)

(***************************************************************************)
(* C4.  As claimed: a triggering assignment whose destination has no name  *)
(* or no symbol is skipped entirely, the state store and mtag_about stay   *)
(* as they were.                                                           *)
(***************************************************************************)
C4_UnresolvedSkipped ==
    [][\A expr \in AssignExprs :
        (alloc_assign(expr) /\ Triggering(expr) /\ ~DestResolved(expr)) =>
            UNCHANGED <<states, mtag_about>>
      ]_vars

(***************************************************************************)
(* C5.  As claimed: whatever hook runs, a TagState bound to (name, symbol) *)
(* is replaced by a different one only by an allocation assignment to that *)
(* binding.                                                                *)
(***************************************************************************)
C5_NoSilentOverwrite ==
    [][\A b \in DOMAIN states :
        (states'[b] # states[b]) =>
            \E expr \in AssignExprs :
                /\ alloc_assign(expr)
                /\ Triggering(expr)
                /\ <<Dest(expr).name, Dest(expr).sym>> = b
      ]_vars

(***************************************************************************)
(* C6.  As claimed, for toplevel symbols: two eligible symbols that differ *)
(* in name, in linkage or, both static, in file never get the same context *)
(* string in buf.                                                          *)
(***************************************************************************)
C6_ContextsDistinct ==
    \A i \in 1..Len(ret) : \A j \in 1..Len(ret) :
        LET a == ret[i]
            b == ret[j]
        IN  ( /\ a.fn = "get_toplevel_mtag" /\ b.fn = "get_toplevel_mtag"
              /\ a.rc = 1 /\ b.rc = 1
              /\ \/ a.arg.ident # b.arg.ident
                 \/ IsStatic(a.arg) # IsStatic(b.arg)
                 \/ IsStatic(a.arg) /\ IsStatic(b.arg) /\ a.file # b.file )
            => a.buf # b.buf

(***************************************************************************)
(* C7.  Resolver conservatism: get_mtag returns 1 and the tag              *)
(* get_toplevel_mtag gives x exactly when its argument is an eligible      *)
(* symbol x or &x, under any parentheses and casts outside and directly    *)
(* inside the address-of; for every other expression it returns 0.         *)
(***************************************************************************)
\* S and its members under up to n parentheses and casts
RECURSIVE ParenCast(_, _)
ParenCast(S, n) ==
    IF n = 0 THEN S
    ELSE LET T == ParenCast(S, n - 1)
         IN  T \cup {ExprPreop("(", e) : e \in T} \cup {ExprCast(e) : e \in T}

ResolvableForms ==
    [sym \in {s \in DeclSyms : Eligible(s)} |->
        LET inner == ParenCast({ExprSymbol(sym)}, MaxWrap)
        IN  ParenCast(inner \cup {ExprPreop("&", e) : e \in inner}, MaxWrap)]

C7_ResolverConservative ==
    \A i \in 1..Len(ret) :
        LET r == ret[i]
        IN  r.fn = "get_mtag" =>
                IF \E sym \in DOMAIN ResolvableForms : r.arg \in ResolvableForms[sym]
                THEN \E sym \in DOMAIN ResolvableForms :
                        /\ r.arg \in ResolvableForms[sym]
                        /\ r.rc = 1
                        /\ r.tag = get_toplevel_mtag(r.file, sym).tag
                ELSE r.rc = 0 /\ r.tag = NoTag

\* (&(T)foo) resolved to the tag of the static foo
C7_Witness ==
    /\ Len(ret) = 1
    /\ ret[1].fn = "get_mtag"
    /\ ret[1].arg = ExprPreop("(", ExprPreop("&", ExprCast(ExprSymbol(SymStaticFoo))))
    /\ ret[1].rc = 1
    /\ InRange63(ret[1].tag)

(***************************************************************************)
(* C8.  Sign bit: every tag derived from a digest is the digest's first 64 *)
(* bits with bit 63 cleared, so every tag in mtag_about (allocations and   *)
(* toplevel symbols), every tag bound in the state store and every tag     *)
(* read back from a caller_info row is in [0, 2^63).                       *)
(***************************************************************************)
\* the first 64 bits of the k-th digest, bit 63 taken off
DigestLow63(k) ==
    LET w == Load64(Digest(k))
    IN  [w EXCEPT ![TagLimbs] = IF @ >= SignBit THEN @ - SignBit ELSE @]

C8_SignBitClear ==
    /\ \A row \in BagToSet(mtag_about) :
            /\ InRange63(row.tag)
            /\ \E k \in 0..Len(HashInputs) : row.tag = DigestLow63(k)
    /\ \A b \in DOMAIN states : InRange63(states[b].data)
    /\ \A row \in BagToSet(caller_info) : InRange63(atoll(row.value))

\* a tag whose digest had bit 63 set went from an allocation through a
\* caller_info row into a parameter of the callee
C8_Witness ==
    \E row \in BagToSet(mtag_about) : \E k \in 1..Len(HashInputs) :
        /\ Load64(Digest(k))[TagLimbs] >= SignBit
        /\ row.tag = DigestLow63(k)
        /\ \E cr \in BagToSet(caller_info) : atoll(cr.value) = row.tag
        /\ <<"p", SymP>> \in DOMAIN states
        /\ states[<<"p", SymP>>].data = row.tag

(***************************************************************************)
(* C9.  Emission exactness: for a call with arguments a_0..a_(n-1),        *)
(* match_call_info inserts exactly one caller_info row {call, MEMORY_TAG,  *)
(* i, "$", decimal tag} for each position i whose argument has a bound     *)
(* TagState, i counted in the full argument list, inserts no other row     *)
(* and leaves the state store as it was.                                   *)
(***************************************************************************)
C9_EmissionExact ==
    [][\A expr \in CallExprs :
        (vars' # vars /\ match_call_info(expr)) =>
            LET tagged == {i \in 1..Len(expr.args) :
                             get_state_expr(states, expr.args[i]) # NullState}
                RowAt(i) == [fn |-> expr.fn.symbol.ident, type |-> MEMORY_TAG,
                             param |-> i - 1, key |-> "$",
                             value |-> FmtLld(get_state_expr(states, expr.args[i]).data)]
            IN  /\ states' = states
                /\ mtag_about' = mtag_about
                /\ \A row \in BagToSet(caller_info) \cup BagToSet(caller_info') :
                        CopiesIn(row, caller_info') - CopiesIn(row, caller_info)
                            = Cardinality({i \in tagged : RowAt(i) = row})
                /\ \A i \in tagged : BagIn(RowAt(i), caller_info')
      ]_vars

\* callee(1, d) with d tagged left a row for parameter 1 and none for 0
C9_Witness ==
    /\ <<"d", SymD>> \in DOMAIN states
    /\ BagCardinality(caller_info) = 1
    /\ \E row \in BagToSet(caller_info) :
            /\ row.param = 1
            /\ row.key = "$"
            /\ row.type = MEMORY_TAG
            /\ row.value = states[<<"d", SymD>>].name

(***************************************************************************)
(* C10.  Toplevel metadata is written on the declaration path only:        *)
(* global_variable inserts exactly one mtag_about row {tag, identifier,    *)
(* qualifier} for an eligible symbol, the qualifier being "extern" or the  *)
(* file, as in the tag's derivation, and nothing for any other symbol; a   *)
(* call of get_toplevel_mtag or get_mtag leaves every store as it was.     *)
(***************************************************************************)
C10_MetadataOnDeclaration ==
    [][/\ \A sym \in DeclSyms :
            (vars' # vars /\ global_variable(sym)) =>
                /\ UNCHANGED <<states, caller_info>>
                /\ IF Eligible(sym)
                   THEN mtag_about' = mtag_about (+) OneRow(
                            [tag |-> get_toplevel_mtag(filename, sym).tag,
                             name |-> sym.ident,
                             about |-> IF IsStatic(sym) THEN filename ELSE "extern"])
                   ELSE mtag_about' = mtag_about
       /\ (ret' # ret) => UNCHANGED <<states, mtag_about, caller_info>>
      ]_vars

\* after a declaration of the extern bar was recorded, get_mtag resolved
\* &foo and the table still holds that one row
C10_Witness ==
    /\ BagCardinality(mtag_about) = 1
    /\ \E row \in BagToSet(mtag_about) : row.name = "bar" /\ row.about = "extern"
    /\ Len(ret) = 1
    /\ ret[1].fn = "get_mtag"
    /\ ret[1].arg = ExprPreop("&", ExprSymbol(SymStaticFoo))
    /\ ret[1].rc = 1

====
